---- MODULE Spec2Model ----
(***************************************************************************)
(* Fleet simulation engine of src/src/hooks/useTruckSimulation.ts.         *)
(*                                                                         *)
(* State: the four React states of the hook (trucks, alerts,               *)
(* fuelConsumptionData, fuelLossHistory) and the wall clock.  Operations:  *)
(* the 1500 ms interval callback (Tick) and the two commands               *)
(* (AssignTrip, AcknowledgeAlert).                                         *)
(*                                                                         *)
(* Numbers.  Litres are integers, as in the code (every draw is            *)
(* Math.floor'ed and every demo level is an integer).  Coordinates are     *)
(* fixed point, one unit = 1e-5 degree.  A percentage that the code keeps  *)
(* as a float is kept as an exact ratio [num, den].  Every Math.random()   *)
(* and Date.now() of one tick is an input of the Tick action (a Draw       *)
(* record per truck).                                                      *)
(*                                                                         *)
(* The geofence library (geofence.ts) is pure; its functions are operators *)
(* and SpecGeo applies them to a bounded set of arguments.                 *)
(***************************************************************************)
EXTENDS Integers, Sequences, FiniteSets, TLC

VARIABLES
    trucks,               \* useState<Truck[]>, line 111
    alerts,               \* useState<Alert[]>, line 112 (newest first)
    fuelConsumptionData,  \* line 114
    fuelLossHistory,      \* line 115
    now,                  \* the wall clock, in ticks of the 1500 ms interval
    lastCmd,              \* the operation that produced this state, with its arguments
    ticks,                \* ticks explored so far
    cmds,                 \* commands explored so far
    geo                   \* a call of the geofence library: arguments and result

vars == <<trucks, alerts, fuelConsumptionData, fuelLossHistory, now, lastCmd, ticks, cmds, geo>>

(***************************************************************************)
(* Bounds of the exploration.                                              *)
(***************************************************************************)
MaxTicks == 4
MaxCmds == 2

(***************************************************************************)
(* Generic helpers for JavaScript values.                                  *)
(***************************************************************************)
\* An optional field: <<>> is `undefined`, <<v>> is the value v.
None == <<>>
Some(v) == <<v>>
\* `x || 0` on an optional number.
Or0(x) == IF x = None THEN 0 ELSE x[1]

Min(a, b) == IF a <= b THEN a ELSE b
Max(a, b) == IF a >= b THEN a ELSE b

\* Array.prototype.slice(-n): the last n elements.
SliceLast(s, n) == IF Len(s) <= n THEN s ELSE SubSeq(s, Len(s) - n + 1, Len(s))
\* Array.prototype.slice(0, n): the first n elements.
SliceFirst(s, n) == IF Len(s) <= n THEN s ELSE SubSeq(s, 1, n)

\* The array a map() call returns: f[1], ..., f[n] as a tuple.
Array(f) == SubSeq(f, 1, Len(f))

RECURSIVE SumSeq(_)
SumSeq(s) == IF s = <<>> THEN 0 ELSE s[1] + SumSeq(Tail(s))

RECURSIVE Concat(_)
Concat(ss) == IF ss = <<>> THEN <<>> ELSE ss[1] \o Concat(Tail(ss))

(***************************************************************************)
(* Seed data (lines 9-105).  Coordinates in units of 1e-5 degree.          *)
(***************************************************************************)
Pos(lat, lng) == [lat |-> lat, lng |-> lng]
Place(lat, lng, name) == [lat |-> lat, lng |-> lng, name |-> name]

AIRPORT_DEPOT == Place(2359320, 5828450, "Airport Depot")
GHALA_DEPOT == Place(2357900, 5837700, "Ghala Depot")
QURUM_SHELL == Place(2360250, 5843750, "Shell Station Qurum")
AL_KHUWAIR_BP == Place(2358500, 5840000, "BP Al Khuwair")

\* One compartment literal of DEMO_TRUCKS; targetDelivery is optional there,
\* deliveredLiters is never set by the seed data.
Comp(id, capacity, currentLevel, isOffloading, targetDelivery) ==
    [id |-> id, capacity |-> capacity, currentLevel |-> currentLevel,
     isOffloading |-> isOffloading, targetDelivery |-> targetDelivery,
     deliveredLiters |-> None]

\* A row of DEMO_TRUCKS after the initialising effect (lines 129-143) has added
\* telemetry, logs and the one-entry trail.  fuelFlow is the initial reading
\* (Math.random() * 50 + 10 while delivering, else 0).
DemoTruck(id, status, position, destination, compartments, fuelFlow) ==
    [id |-> id, status |-> status, position |-> position,
     destination |-> destination, startPoint |-> None,
     compartments |-> compartments,
     telemetry |-> [fuelFlow |-> IF status = "delivering" THEN fuelFlow ELSE 0,
                    valveStatus |-> (status = "delivering"),
                    online |-> TRUE],
     logs |-> <<>>,
     trail |-> <<position>>,
     currentAssignment |-> None,
     lastTripSummary |-> None]

TK001(p) == DemoTruck("TK001", "idle", p, None,
    << Comp("C1", 5000, 4800, FALSE, None), Comp("C2", 5000, 4500, FALSE, None),
       Comp("C3", 5000, 3200, FALSE, None), Comp("C4", 5000, 2800, FALSE, None) >>, 0)

TK002(p) == DemoTruck("TK002", "delivering", p, Some(AL_KHUWAIR_BP),
    << Comp("C1", 5000, 4200, TRUE, Some(2000)), Comp("C2", 5000, 3800, FALSE, None),
       Comp("C3", 5000, 4600, FALSE, None), Comp("C4", 5000, 3400, FALSE, None) >>, 35)

TK003(p) == DemoTruck("TK003", "assigned", p, Some(QURUM_SHELL),
    << Comp("C1", 5000, 5000, FALSE, None), Comp("C2", 5000, 5000, FALSE, None),
       Comp("C3", 5000, 4800, FALSE, None), Comp("C4", 5000, 4900, FALSE, None) >>, 0)

TK004(p) == DemoTruck("TK004", "completed", p, None,
    << Comp("C1", 5000, 500, FALSE, None), Comp("C2", 5000, 300, FALSE, None),
       Comp("C3", 5000, 800, FALSE, None), Comp("C4", 5000, 200, FALSE, None) >>, 0)

TK005(p) == DemoTruck("TK005", "uplifting", p, None,
    << Comp("C1", 5000, 3200, FALSE, None), Comp("C2", 5000, 2800, FALSE, None),
       Comp("C3", 5000, 3600, FALSE, None), Comp("C4", 5000, 3100, FALSE, None) >>, 0)

(***************************************************************************)
(* Random draws of one truck in one tick.  Each field is the outcome of    *)
(* the Math.random() call named beside it; per-compartment draws are       *)
(* sequences indexed like truck.compartments.                              *)
(***************************************************************************)
Draw(noise, totalAssigned, compAmount, fillAmount, drainRate, loss, lossBp, theft, stolenAmount, valve, tilt, offline, ambient, skew) ==
    [noise |-> noise,                   \* lines 159-160, in [-50, 50) units
     drift |-> Pos(0, 0),               \* lines 317-318, in [-5, 5) units
     totalAssigned |-> totalAssigned,   \* line 232, 2500..4999
     compAmount |-> compAmount,         \* line 240, 500..1999
     fillAmount |-> fillAmount,         \* line 276, 40..79
     drainRate |-> drainRate,           \* line 351, 20..59
     loss |-> loss,                     \* line 365, Math.random() < 0.3
     lossBp |-> lossBp,                 \* line 366, 0.5-2.5 %, in 1/100 %: 50..249
     theft |-> theft,                   \* line 433
     victimPick |-> 0,                  \* line 436, index into activeComps
     stolenAmount |-> stolenAmount,     \* line 437, 50..149
     valve |-> valve,                   \* line 465
     tilt |-> tilt,                     \* line 486
     offline |-> offline,               \* line 511
     ambient |-> ambient,               \* line 538
     ambientType |-> "tampering",       \* line 540
     ambientSeverity |-> "low",         \* line 545
     baseFlow |-> 35,                   \* line 337
     online |-> TRUE,                   \* line 340
     skew |-> skew]                     \* Date.now() - (clock at tick start)

(***************************************************************************)
(* Arithmetic of the tick.                                                 *)
(***************************************************************************)
\* capacity * (n / 100); exact, the capacities of DEMO_TRUCKS are multiples of 100.
Pct(capacity, n) == (capacity * n) \div 100

\* (destination - position) * 0.01 in fixed point, rounded to the nearest unit.
Pct1(d) == IF d >= 0 THEN (d + 50) \div 100 ELSE -((50 - d) \div 100)

\* The arrival threshold 0.005 degree (line 169).
ArrivalRadius == 500

\* Math.sqrt(dLat^2 + dLng^2) < 0.005 (lines 164-169).
Arrived(p, dest) ==
    (p.lat - dest.lat) * (p.lat - dest.lat) + (p.lng - dest.lng) * (p.lng - dest.lng)
        < ArrivalRadius * ArrivalRadius

\* An exact ratio num/den standing for a float.
Ratio(num, den) == [num |-> num, den |-> den]
\* r > a / b, for positive denominators.
RatioGt(r, a, b) == r.num * b > a * r.den

\* Math.round(target * lossPercent / 100) with lossPercent = bp / 100 (line 367).
RoundLoss(target, bp) == (target * bp + 5000) \div 10000

\* logs = [...logs.slice(-40), entry]
AppendLog(logs, entry) == Append(SliceLast(logs, 40), entry)

\* Date.now() inside the tick that starts at clock value t (interval 1500 ms, line 574).
TickMs == 1500
DateNow(t, d) == t * TickMs + d.skew

\* An Alert literal (acknowledged: false).  `rnd` is the Math.random() suffix of
\* the ambient alert id (line 543) and "" for every other id.
NewAlert(ms, tag, rnd, type, severity, truckId) ==
    [id |-> [ms |-> ms, tag |-> tag, rnd |-> rnd],
     timestamp |-> ms, type |-> type, severity |-> severity, truckId |-> truckId,
     acknowledged |-> FALSE]

\* What processing one truck yields: the new truck and the queued stream updates.
Out(truck, newAlerts, newHistory) ==
    [truck |-> truck, alerts |-> newAlerts, history |-> newHistory]

(***************************************************************************)
(* The status branches of the tick (lines 155-320).                        *)
(***************************************************************************)
\* delivering with a destination: move, and complete on arrival (lines 155-228).
DeliveringBranch(truck, d, ms) ==
    LET dest == truck.destination[1]
        newPos == Pos(truck.position.lat + Pct1(dest.lat - truck.position.lat) + d.noise.lat,
                      truck.position.lng + Pct1(dest.lng - truck.position.lng) + d.noise.lng)
        moved == [truck EXCEPT !.position = newPos]
    IN  IF ~Arrived(newPos, dest) THEN Out(moved, <<>>, <<>>)
        ELSE IF truck.currentAssignment # None THEN
            LET assignedLiters == truck.currentAssignment[1].assignedLiters
                deliveredLiters ==
                    SumSeq([i \in 1..Len(truck.compartments) |->
                                Or0(truck.compartments[i].deliveredLiters)])
                lossLiters == truck.currentAssignment[1].provisionalLossLiters
                lossPercent == IF assignedLiters > 0
                               THEN Ratio(lossLiters * 100, assignedLiters)
                               ELSE Ratio(0, 1)
                summary == [assignedLiters |-> assignedLiters,
                            deliveredLiters |-> deliveredLiters,
                            lossLiters |-> lossLiters,
                            lossPercent |-> lossPercent]
                entry == [timestamp |-> ms,
                          truckId |-> truck.id,
                          assignedLiters |-> assignedLiters,
                          deliveredLiters |-> deliveredLiters,
                          lossLiters |-> lossLiters,
                          lossPercent |-> lossPercent]
                lossAlert == NewAlert(ms, "loss", "", "loss",
                                      IF RatioGt(lossPercent, 5, 1) THEN "high" ELSE "medium",
                                      truck.id)
            IN  Out([moved EXCEPT !.status = "completed",
                                  !.lastTripSummary = Some(summary),
                                  !.logs = AppendLog(truck.logs, "Trip result")],
                    IF RatioGt(lossPercent, 25, 10) THEN <<lossAlert>> ELSE <<>>,
                    <<entry>>)
        ELSE Out([moved EXCEPT !.status = "completed",
                               !.logs = AppendLog(truck.logs, "Delivery completed")],
                 <<>>, <<>>)

\* The allocation loop of lines 237-254 from compartment i on, with
\* remainingToAssign = remaining: the new compartments i..n.
RECURSIVE Allocate(_, _, _, _)
Allocate(comps, i, remaining, d) ==
    IF i > Len(comps) THEN <<>>
    ELSE LET comp == comps[i] IN
         IF remaining > 0 /\ comp.currentLevel > Pct(comp.capacity, 10)
         THEN LET maxFromThisComp == Min(remaining, comp.currentLevel - Pct(comp.capacity, 5))
                  assignedAmount == Min(maxFromThisComp, d.compAmount[i])
              IN  <<[comp EXCEPT !.targetDelivery = Some(assignedAmount),
                                 !.deliveredLiters = Some(0),
                                 !.isOffloading = (assignedAmount > 0)]>>
                  \o Allocate(comps, i + 1, remaining - assignedAmount, d)
         ELSE <<[comp EXCEPT !.targetDelivery = Some(0),
                             !.deliveredLiters = Some(0),
                             !.isOffloading = FALSE]>>
              \o Allocate(comps, i + 1, remaining, d)

\* assigned: start the delivery (lines 229-269).
PerCompTargets(newComps) ==
    Array([i \in 1..Len(newComps) |-> newComps[i].targetDelivery[1]])

AssignedBranch(truck, d, ms) ==
    LET newComps == Allocate(truck.compartments, 1, d.totalAssigned, d)
    IN  Out([truck EXCEPT !.status = "delivering",
                          !.compartments = newComps,
                          !.currentAssignment =
                              Some([assignedLiters |-> d.totalAssigned,
                                    perCompTargets |-> PerCompTargets(newComps),
                                    provisionalLossLiters |-> 0]),
                          !.logs = AppendLog(truck.logs, "Assigned")],
            <<>>, <<>>)

\* A faulty refill that LevelsInRange rejects: the 98 % guard and the
\* Math.min(capacity, ...) cap are both left out.
RefillCompUncapped(comp, fillAmount) ==
    [comp EXCEPT !.currentLevel = comp.currentLevel + fillAmount,
                 !.deliveredLiters = Some(0)]

\* One compartment of the refill map (lines 274-293).
RefillComp(comp, fillAmount) ==
    IF comp.currentLevel < Pct(comp.capacity, 98)
    THEN [comp EXCEPT !.currentLevel = Min(comp.capacity, comp.currentLevel + fillAmount),
                      !.deliveredLiters = Some(0)]
    ELSE [comp EXCEPT !.deliveredLiters = Some(0)]

\* The 100 L milestone entries the refill map appends for compartments i..n
\* (lines 280-287).
RECURSIVE RefillLogs(_, _, _, _)
RefillLogs(logs, comps, newComps, i) ==
    IF i > Len(comps) THEN logs
    ELSE IF /\ newComps[i].currentLevel - comps[i].currentLevel > 0
            /\ newComps[i].currentLevel \div 100 > comps[i].currentLevel \div 100
         THEN RefillLogs(AppendLog(logs, "refilled"), comps, newComps, i + 1)
         ELSE RefillLogs(logs, comps, newComps, i + 1)

\* A faulty uplift that IdleHasNoDestination rejects: the truck goes idle
\* without clearing destination and startPoint.
UpliftingBranchKeepsTrip(truck, d, ms) ==
    LET newComps == Array([i \in 1..Len(truck.compartments) |->
                        RefillComp(truck.compartments[i], d.fillAmount[i])])
        logs1 == RefillLogs(truck.logs, truck.compartments, newComps, 1)
        allFull == \A i \in 1..Len(newComps) :
                       newComps[i].currentLevel >= Pct(newComps[i].capacity, 95)
        refilled == [truck EXCEPT !.compartments = newComps, !.logs = logs1]
    IN  IF allFull
        THEN Out([refilled EXCEPT !.status = "idle",
                                  !.logs = AppendLog(logs1, "Uplift completed")],
                 <<>>, <<>>)
        ELSE Out(refilled, <<>>, <<>>)

\* A faulty uplift that UpliftBoundDecreases rejects: allFull tests the refill
\* guard's 98 % instead of 95 %.
UpliftingBranchFullAt98(truck, d, ms) ==
    LET newComps == Array([i \in 1..Len(truck.compartments) |->
                        RefillComp(truck.compartments[i], d.fillAmount[i])])
        logs1 == RefillLogs(truck.logs, truck.compartments, newComps, 1)
        allFull == \A i \in 1..Len(newComps) :
                       newComps[i].currentLevel >= Pct(newComps[i].capacity, 98)
        refilled == [truck EXCEPT !.compartments = newComps, !.logs = logs1]
    IN  IF allFull
        THEN Out([refilled EXCEPT !.status = "idle",
                                  !.destination = None,
                                  !.startPoint = None,
                                  !.logs = AppendLog(logs1, "Uplift completed")],
                 <<>>, <<>>)
        ELSE Out(refilled, <<>>, <<>>)

\* uplifting: refill, and go idle when every compartment is at 95 % (lines 271-305).
UpliftingBranch(truck, d, ms) ==
    LET newComps == Array([i \in 1..Len(truck.compartments) |->
                        RefillComp(truck.compartments[i], d.fillAmount[i])])
        logs1 == RefillLogs(truck.logs, truck.compartments, newComps, 1)
        allFull == \A i \in 1..Len(newComps) :
                       newComps[i].currentLevel >= Pct(newComps[i].capacity, 95)
        refilled == [truck EXCEPT !.compartments = newComps, !.logs = logs1]
    IN  IF allFull
        THEN Out([refilled EXCEPT !.status = "idle",
                                  !.destination = None,
                                  !.startPoint = None,
                                  !.logs = AppendLog(logs1, "Uplift completed")],
                 <<>>, <<>>)
        ELSE Out(refilled, <<>>, <<>>)

\* A faulty completed branch that TickEdges rejects: the truck is released
\* without the uplift.
CompletedBranchSkipsUplift(truck, d, ms) ==
    Out([truck EXCEPT !.status = "idle",
                      !.compartments =
                          Array([i \in 1..Len(truck.compartments) |->
                              [truck.compartments[i] EXCEPT !.isOffloading = FALSE,
                                                            !.targetDelivery = Some(0)]])],
        <<>>, <<>>)

\* A faulty completed branch that NoOffloadingAtRest rejects: the targets are
\* cleared but isOffloading is left as the delivery left it.
CompletedBranchKeepsOffloading(truck, d, ms) ==
    Out([truck EXCEPT !.status = "uplifting",
                      !.compartments =
                          Array([i \in 1..Len(truck.compartments) |->
                              [truck.compartments[i] EXCEPT !.targetDelivery = Some(0)]])],
        <<>>, <<>>)

\* completed: move to uplifting (lines 306-313).
CompletedBranch(truck, d, ms) ==
    Out([truck EXCEPT !.status = "uplifting",
                      !.compartments =
                          Array([i \in 1..Len(truck.compartments) |->
                              [truck.compartments[i] EXCEPT !.isOffloading = FALSE,
                                                            !.targetDelivery = Some(0)]])],
        <<>>, <<>>)

\* A faulty drift branch that IdleTickFrame rejects: the drift is logged.
DriftBranchLogs(truck, d, ms) ==
    Out([truck EXCEPT !.position = Pos(truck.position.lat + d.drift.lat,
                                       truck.position.lng + d.drift.lng),
                      !.logs = AppendLog(truck.logs, "drift")],
        <<>>, <<>>)

\* every other truck: random position drift (lines 314-320).
DriftBranch(truck, d, ms) ==
    Out([truck EXCEPT !.position = Pos(truck.position.lat + d.drift.lat,
                                       truck.position.lng + d.drift.lng)],
        <<>>, <<>>)

\* The if / else-if chain of lines 155-320.
StatusBranch(truck, d, ms) ==
    IF truck.status = "delivering" /\ truck.destination # None
        THEN DeliveringBranch(truck, d, ms)
    ELSE IF truck.status = "assigned" THEN AssignedBranch(truck, d, ms)
    ELSE IF truck.status = "uplifting" THEN UpliftingBranch(truck, d, ms)
    ELSE IF truck.status = "completed" THEN CompletedBranch(truck, d, ms)
    ELSE DriftBranch(truck, d, ms)

(***************************************************************************)
(* The drain of a delivering truck and its incidents (lines 345-508).      *)
(***************************************************************************)
\* The drain guard of line 350.
DrainGuard(comp) ==
    /\ comp.isOffloading
    /\ comp.currentLevel > 0
    /\ Or0(comp.deliveredLiters) < Or0(comp.targetDelivery)

\* A faulty maxDrain that DrainStep rejects: the 5 % reserve is left out.
MaxDrainWithoutReserve(comp, drainRate) ==
    Min(drainRate, Or0(comp.targetDelivery) - Or0(comp.deliveredLiters))

\* maxDrain of lines 351-354.
MaxDrain(comp, drainRate) ==
    Min(Min(drainRate, Or0(comp.targetDelivery) - Or0(comp.deliveredLiters)),
        comp.currentLevel - Pct(comp.capacity, 5))

\* The amount one compartment gives up in this tick (0 when the guard or
\* `maxDrain > 0` fails).
Drained(comp, drainRate) ==
    IF DrainGuard(comp) /\ MaxDrain(comp, drainRate) > 0
    THEN MaxDrain(comp, drainRate) ELSE 0

\* Line 362: the compartment finishes offloading in this tick.
Finishes(comp, drainRate) ==
    /\ Drained(comp, drainRate) > 0
    /\ \/ Or0(comp.deliveredLiters) + Drained(comp, drainRate) >= Or0(comp.targetDelivery)
       \/ comp.currentLevel - Drained(comp, drainRate) <= Pct(comp.capacity, 5)

\* A faulty drain map that DeliveryStopsAtTargetOrReserve rejects:
\* deliveredLiters is overwritten with this tick's drain instead of increased.
DrainCompOverwrites(comp, drainRate) ==
    IF Drained(comp, drainRate) = 0 THEN comp
    ELSE [comp EXCEPT
            !.currentLevel = comp.currentLevel - Drained(comp, drainRate),
            !.deliveredLiters = Some(Drained(comp, drainRate)),
            !.isOffloading = IF Finishes(comp, drainRate) THEN FALSE ELSE comp.isOffloading]

\* One compartment of the drain map (lines 349-430).
DrainComp(comp, drainRate) ==
    IF Drained(comp, drainRate) = 0 THEN comp
    ELSE [comp EXCEPT
            !.currentLevel = comp.currentLevel - Drained(comp, drainRate),
            !.deliveredLiters = Some(Or0(comp.deliveredLiters) + Drained(comp, drainRate)),
            !.isOffloading = IF Finishes(comp, drainRate) THEN FALSE ELSE comp.isOffloading]

\* A faulty loss injection that LossIsBounded rejects: the loss is drawn in
\* every tick in which the compartment drains, not only in the one in which
\* it finishes.
CompLossWhileDraining(comp, d, i) ==
    IF Drained(comp, d.drainRate[i]) > 0 /\ d.loss[i]
    THEN RoundLoss(Or0(comp.targetDelivery), d.lossBp[i]) ELSE 0

\* compLossLiters of lines 364-367 for compartment i (0 when no loss is drawn).
CompLoss(comp, d, i) ==
    IF Finishes(comp, d.drainRate[i]) /\ d.loss[i]
    THEN RoundLoss(Or0(comp.targetDelivery), d.lossBp[i]) ELSE 0

\* The comp-loss alerts of compartments i..n, in emission order (lines 374-388).
RECURSIVE CompLossAlerts(_, _, _, _, _)
CompLossAlerts(truck, comps, i, d, ms) ==
    IF i > Len(comps) THEN <<>>
    ELSE (IF /\ Finishes(comps[i], d.drainRate[i])
             /\ d.loss[i]
             /\ (CompLoss(comps[i], d, i) > 10 \/ d.lossBp[i] > 100)
          THEN <<NewAlert(ms, "comp-loss", "", "loss",
                          IF d.lossBp[i] > 200 THEN "medium" ELSE "low", truck.id)>>
          ELSE <<>>)
         \o CompLossAlerts(truck, comps, i + 1, d, ms)

\* The "delivered" log entries of compartments i..n (lines 402-411).
RECURSIVE DrainLogs(_, _, _, _)
DrainLogs(logs, comps, i, d) ==
    IF i > Len(comps) THEN logs
    ELSE DrainLogs(IF Finishes(comps[i], d.drainRate[i])
                   THEN AppendLog(logs, "delivered") ELSE logs,
                   comps, i + 1, d)

\* currentAssignment.provisionalLossLiters += compLossLiters (lines 370-372).
AddLoss(assignment, liters) ==
    IF assignment = None THEN None
    ELSE Some([assignment[1] EXCEPT
                 !.provisionalLossLiters = assignment[1].provisionalLossLiters + liters])

\* The theft incident on the drained compartments (lines 433-462): the victim
\* is activeComps[victimPick] and loses stolenAmount, floored at 0.
ActiveIdx(comps) == {i \in 1..Len(comps) : comps[i].isOffloading}
RECURSIVE NthSmallest(_, _)
NthSmallest(S, n) ==
    LET m == CHOOSE x \in S : \A y \in S : x <= y
    IN  IF n = 0 THEN m ELSE NthSmallest(S \ {m}, n - 1)
\* A faulty theft that TheftTakes50To149 rejects: every active compartment
\* loses stolenAmount, not only the victim.
TheftCompsHitsEveryActive(comps, d) ==
    Array([i \in 1..Len(comps) |->
        IF comps[i].isOffloading
        THEN [comps[i] EXCEPT !.currentLevel = Max(0, comps[i].currentLevel - d.stolenAmount)]
        ELSE comps[i]])

TheftComps(comps, d) ==
    LET victimId == comps[NthSmallest(ActiveIdx(comps),
                                      d.victimPick % Cardinality(ActiveIdx(comps)))].id
    IN  Array([i \in 1..Len(comps) |->
            IF comps[i].id = victimId
            THEN [comps[i] EXCEPT !.currentLevel = Max(0, comps[i].currentLevel - d.stolenAmount)]
            ELSE comps[i]])

\* The incidents of a delivering truck (lines 433-504) on o, the truck and the
\* queued alerts so far; drainedComps is what the drain map returned.
IncidentBlock(truck, o, drainedComps, d, ms) ==
    LET isTheft == d.theft /\ ActiveIdx(drainedComps) # {}
        theftAlerts == IF isTheft
                       THEN <<NewAlert(ms, "theft", "", "theft", "high", truck.id)>> ELSE <<>>
        logs2 == IF isTheft THEN AppendLog(o.truck.logs, "theft") ELSE o.truck.logs
        valveAlerts == IF d.valve
                       THEN <<NewAlert(ms, "valve", "", "valve", "medium", truck.id)>> ELSE <<>>
        logs3 == IF d.valve THEN AppendLog(logs2, "valve") ELSE logs2
        tiltAlerts == IF d.tilt
                      THEN <<NewAlert(ms, "tilt", "", "tilt", "medium", truck.id)>> ELSE <<>>
        logs4 == IF d.tilt THEN AppendLog(logs3, "tilt") ELSE logs3
    IN  Out([o.truck EXCEPT
                !.compartments = IF isTheft THEN TheftComps(drainedComps, d) ELSE drainedComps,
                !.logs = logs4,
                !.telemetry = [o.truck.telemetry EXCEPT
                                 !.valveStatus = IF d.valve THEN FALSE ELSE @]],
            o.alerts \o theftAlerts \o valveAlerts \o tiltAlerts,
            o.history)

\* The drain of lines 346-430 and the flow reading of line 507, on o.  The drain
\* maps truck.compartments, the pre-tick compartments.
DrainBlock(truck, o, d, ms) ==
    LET comps == truck.compartments
        n == Len(comps)
        totalDrained == SumSeq([i \in 1..n |-> Drained(comps[i], d.drainRate[i])])
        totalLoss == SumSeq([i \in 1..n |-> CompLoss(comps[i], d, i)])
    IN  Out([o.truck EXCEPT
                !.currentAssignment = AddLoss(o.truck.currentAssignment, totalLoss),
                !.logs = DrainLogs(o.truck.logs, comps, 1, d),
                !.telemetry = [o.truck.telemetry EXCEPT !.fuelFlow = totalDrained]],
            o.alerts \o CompLossAlerts(truck, comps, 1, d, ms),
            o.history)

\* The block `if (truck.status === 'delivering') { ... }` of lines 346-508.
DeliveryBlock(truck, o, d, ms) ==
    IF truck.status = "delivering"
    THEN IncidentBlock(truck, DrainBlock(truck, o, d, ms),
                       Array([i \in 1..Len(truck.compartments) |->
                                 DrainComp(truck.compartments[i], d.drainRate[i])]),
                       d, ms)
    ELSE o

(***************************************************************************)
(* One truck in one tick: the body of prevTrucks.map (lines 151-569).      *)
(***************************************************************************)
\* Telemetry refresh (lines 334-343).
RefreshTelemetry(truck, o, d) ==
    Out([o.truck EXCEPT
            !.telemetry = [fuelFlow |-> IF truck.status = "delivering" THEN d.baseFlow ELSE 0,
                           valveStatus |-> (truck.status = "delivering"),
                           online |-> d.online]],
        o.alerts, o.history)

\* Offline incident while uplifting (lines 510-529).
OfflineBlock(truck, o, d, ms) ==
    IF truck.status = "uplifting" /\ d.offline
    THEN Out([o.truck EXCEPT !.telemetry = [o.truck.telemetry EXCEPT !.online = FALSE],
                             !.logs = AppendLog(o.truck.logs, "offline")],
             o.alerts \o <<NewAlert(ms, "offline", "", "offline", "high", truck.id)>>,
             o.history)
    ELSE o

\* Trail maintenance (lines 531-535).
NewTrail(trail, position) == Append(SliceLast(trail, 20), position)

\* Ambient alert (lines 537-554); its id ends in a fresh Math.random().
AmbientAlerts(truck, d, ms) ==
    IF d.ambient
    THEN <<NewAlert(ms, "random", truck.id, d.ambientType, d.ambientSeverity, truck.id)>>
    ELSE <<>>

\* A faulty sample rule that FlowIsDrain rejects: a delivering truck is sampled
\* on every tick, without the test fuelFlow > 0.
SamplesWithoutFlowTest(truck, nt, ms) ==
    IF truck.status = "delivering"
    THEN <<[timestamp |-> ms, truckId |-> truck.id, liters |-> nt.telemetry.fuelFlow]>>
    ELSE <<>>

\* Fuel-consumption sample (lines 556-566).
Samples(truck, nt, ms) ==
    IF truck.status = "delivering" /\ nt.telemetry.fuelFlow > 0
    THEN <<[timestamp |-> ms, truckId |-> truck.id, liters |-> nt.telemetry.fuelFlow]>>
    ELSE <<>>

\* The end of the map body (lines 531-569) on o: the returned truck and the
\* stream updates queued while computing it, in call order.
Returned(truck, o, d, ms) ==
    [truck |-> [o.truck EXCEPT !.trail = NewTrail(truck.trail, o.truck.position)],
     alerts |-> o.alerts \o AmbientAlerts(truck, d, ms),
     history |-> o.history,
     samples |-> Samples(truck, o.truck, ms)]

\* The map body at Date.now() = ms, block after block.
TickTruckAt(truck, d, ms) ==
    Returned(truck,
             OfflineBlock(truck,
                 DeliveryBlock(truck,
                     RefreshTelemetry(truck, StatusBranch(truck, d, ms), d),
                     d, ms),
                 d, ms),
             d, ms)

TickTruck(truck, d, t) == TickTruckAt(truck, d, DateNow(t, d))

(***************************************************************************)
(* The queued state updaters.                                              *)
(***************************************************************************)
\* A faulty setAlerts updater that AlertsAndHistoryCapped rejects:
\* prev.slice(0, 50) keeps one alert too many.
RECURSIVE PushAlertsSlice50(_, _)
PushAlertsSlice50(prev, queued) ==
    IF queued = <<>> THEN prev
    ELSE PushAlertsSlice50(<<Head(queued)>> \o SliceFirst(prev, 50), Tail(queued))

\* A faulty setAlerts updater that AlertsOnlyAcknowledged rejects: the alert is
\* appended the way the history entries are ([...prev.slice(-49), alert]), which
\* evicts from the wrong end of the newest-first list.
RECURSIVE PushAlertsAtEnd(_, _)
PushAlertsAtEnd(prev, queued) ==
    IF queued = <<>> THEN prev
    ELSE PushAlertsAtEnd(Append(SliceLast(prev, 49), Head(queued)), Tail(queued))

\* setAlerts(prev => [alert, ...prev.slice(0, 49)]), once per queued alert.
RECURSIVE PushAlerts(_, _)
PushAlerts(prev, queued) ==
    IF queued = <<>> THEN prev
    ELSE PushAlerts(<<Head(queued)>> \o SliceFirst(prev, 49), Tail(queued))

\* setFuelLossHistory(prev => [...prev.slice(-499), entry]), once per queued entry.
RECURSIVE PushHistory(_, _)
PushHistory(prev, queued) ==
    IF queued = <<>> THEN prev
    ELSE PushHistory(Append(SliceLast(prev, 499), Head(queued)), Tail(queued))

\* setFuelConsumptionData(prev => [...prev.slice(-1000), sample]), once per sample.
RECURSIVE PushSamples(_, _)
PushSamples(prev, queued) ==
    IF queued = <<>> THEN prev
    ELSE PushSamples(Append(SliceLast(prev, 1000), Head(queued)), Tail(queued))

\* A faulty acknowledge updater that AcknowledgeIdempotent rejects: the flag
\* is toggled instead of set.
AcknowledgeUpdaterToggles(prev, alertId) ==
    Array([i \in 1..Len(prev) |->
        IF prev[i].id = alertId
        THEN [prev[i] EXCEPT !.acknowledged = ~prev[i].acknowledged] ELSE prev[i]])

\* acknowledgeAlert's updater (lines 597-599).
AcknowledgeUpdater(prev, alertId) ==
    Array([i \in 1..Len(prev) |->
        IF prev[i].id = alertId THEN [prev[i] EXCEPT !.acknowledged = TRUE] ELSE prev[i]])

\* A faulty assign updater that UnknownIdIsNoOp rejects: a truckId that
\* matches no truck falls back to the first truck of the fleet.
AssignUpdaterFallsBack(prev, truckId, destination) ==
    Array([i \in 1..Len(prev) |->
        IF \/ prev[i].id = truckId
           \/ (i = 1 /\ \A k \in 1..Len(prev) : prev[k].id # truckId)
        THEN [prev[i] EXCEPT !.status = "assigned",
                             !.destination = Some(destination),
                             !.startPoint = Some(prev[i].position)]
        ELSE prev[i]])

\* A faulty assign updater that TripHasDestination rejects: the destination
\* argument is not stored.
AssignUpdaterDropsDestination(prev, truckId, destination) ==
    Array([i \in 1..Len(prev) |->
        IF prev[i].id = truckId
        THEN [prev[i] EXCEPT !.status = "assigned",
                             !.startPoint = Some(prev[i].position)]
        ELSE prev[i]])

\* A faulty assign updater that AssignTripOnIdle rejects: startPoint is taken
\* from the destination instead of the truck's position.
AssignUpdaterStartsAtDestination(prev, truckId, destination) ==
    Array([i \in 1..Len(prev) |->
        IF prev[i].id = truckId
        THEN [prev[i] EXCEPT !.status = "assigned",
                             !.destination = Some(destination),
                             !.startPoint = Some(Pos(destination.lat, destination.lng))]
        ELSE prev[i]])

\* assignTrip's updater (lines 603-612).
AssignUpdater(prev, truckId, destination) ==
    Array([i \in 1..Len(prev) |->
        IF prev[i].id = truckId
        THEN [prev[i] EXCEPT !.status = "assigned",
                             !.destination = Some(destination),
                             !.startPoint = Some(prev[i].position)]
        ELSE prev[i]])

(***************************************************************************)
(* The whole fleet in one tick: setTrucks(prev => prev.map(...)) with the  *)
(* stream updaters it queues, applied in call order (lines 149-574).       *)
(***************************************************************************)
\* Per-truck results, every truck computed from the same snapshot `prev`.
TickResults(prev, draws, t) ==
    Array([i \in 1..Len(prev) |-> TickTruck(prev[i], draws[i], t)])

\* The array prevTrucks.map returns.
TickTrucks(results) == Array([i \in 1..Len(results) |-> results[i].truck])

\* The queued setAlerts / setFuelLossHistory / setFuelConsumptionData updaters.
TickAlerts(prev, results) ==
    PushAlerts(prev, Concat([i \in 1..Len(results) |-> results[i].alerts]))

TickHistory(prev, results) ==
    PushHistory(prev, Concat([i \in 1..Len(results) |-> results[i].history]))

TickSamples(prev, results) ==
    PushSamples(prev, Concat([i \in 1..Len(results) |-> results[i].samples]))

(***************************************************************************)
(* Inputs of the exploration.                                              *)
(***************************************************************************)
Four(x) == <<x, x, x, x>>

\* No incident, the smallest rates, the truck moves straight.
Quiet == Draw(Pos(0, 0), 2500, Four(500), Four(40), Four(20), Four(FALSE), Four(50),
              FALSE, 50, FALSE, FALSE, FALSE, FALSE, 0)
\* Every incident, the largest rates, the noise pushes the truck away; the
\* allocation leaves 21 L for the third compartment, which then finishes in
\* one drain step and draws a loss.  Date.now() reads 1 ms after the tick start.
\* The thief picks the second active compartment (the only one when one is
\* left); an idle truck drifts by the largest amounts.
Loud == [Draw(Pos(0, -50), 2520, <<1999, 500, 1999, 1999>>, Four(79), Four(59),
              Four(TRUE), Four(249), TRUE, 149, TRUE, TRUE, TRUE, TRUE, 1)
            EXCEPT !.victimPick = 1, !.drift = Pos(4, -5)]

Draws == {Quiet, Loud}

\* The draws of one tick, one per truck: each truck draws the same outcomes.
TickDraws(n) == {[i \in 1..n |-> d] : d \in Draws}

\* Seed positions (seedAround, lines 11-18): TK002 starts 0.005 degree west of
\* its destination, the others at the centre of their seed area.
DemoFleet ==
    << TK001(Pos(AIRPORT_DEPOT.lat, AIRPORT_DEPOT.lng)),
       TK002(Pos(AL_KHUWAIR_BP.lat, AL_KHUWAIR_BP.lng - 500)),
       TK003(Pos(GHALA_DEPOT.lat, GHALA_DEPOT.lng)),
       TK004(Pos(2361600, 5856500)),
       TK005(Pos(AIRPORT_DEPOT.lat + 300, AIRPORT_DEPOT.lng)) >>

\* Arguments offered to the commands.
TruckIdInputs == {"TK001", "TK003", "TK999"}
Destinations == {GHALA_DEPOT}
UnknownAlertId == [ms |-> 0, tag |-> "none", rnd |-> ""]
AlertIdInputs ==
    {UnknownAlertId} \cup {alerts[i].id : i \in {1, Len(alerts)} \cap DOMAIN alerts}

\* A record of the operation that produced a state, and of the command issued
\* right before it (prev; "none" after a tick).
Op(op, truckId, alertId) == [op |-> op, truckId |-> truckId, alertId |-> alertId]
NoPrev == Op("none", "", UnknownAlertId)
Cmd(op, truckId, alertId, last) ==
    [op |-> op, truckId |-> truckId, alertId |-> alertId,
     prev |-> IF last.op \in {"assignTrip", "acknowledgeAlert"}
              THEN Op(last.op, last.truckId, last.alertId) ELSE NoPrev]
NoCmd(op) == [op |-> op, truckId |-> "", alertId |-> UnknownAlertId, prev |-> NoPrev]

\* A call of the geofence library: its arguments and, once it has returned,
\* Some(result).
GeoCall(op, lat, lng, zones, polygon, result) ==
    [op |-> op, lat |-> lat, lng |-> lng, zones |-> zones, polygon |-> polygon,
     result |-> result]
NoGeo == GeoCall("none", 0, 0, <<>>, <<>>, None)

(***************************************************************************)
(* Specification.                                                          *)
(***************************************************************************)
Init ==
    /\ trucks = DemoFleet
    /\ alerts = <<>>
    /\ fuelConsumptionData = <<>>
    /\ fuelLossHistory = <<>>
    /\ now = 0
    /\ lastCmd = NoCmd("init")
    /\ ticks = 0
    /\ cmds = 0
    /\ geo = NoGeo

\* React commits the map's result and runs the queued updaters.
Commit(results) ==
    /\ trucks' = TickTrucks(results)
    /\ alerts' = TickAlerts(alerts, results)
    /\ fuelLossHistory' = TickHistory(fuelLossHistory, results)
    /\ fuelConsumptionData' = TickSamples(fuelConsumptionData, results)

\* A faulty tick that CommandsSurviveTicks rejects: the map runs over the
\* fleet the effect's closure captured (the initial trucks) instead of the
\* updater's argument, the latest state.
TickFromClosure ==
    /\ ticks < MaxTicks
    /\ \E draws \in TickDraws(Len(trucks)) :
        Commit(TickResults(DemoFleet, draws, now + 1))
    /\ now' = now + 1
    /\ ticks' = ticks + 1
    /\ lastCmd' = NoCmd("tick")
    /\ UNCHANGED <<cmds, geo>>

\* The interval callback (lines 149-574).
Tick ==
    /\ ticks < MaxTicks
    /\ \E draws \in TickDraws(Len(trucks)) :
        Commit(TickResults(trucks, draws, now + 1))
    /\ now' = now + 1
    /\ ticks' = ticks + 1
    /\ lastCmd' = NoCmd("tick")
    /\ UNCHANGED <<cmds, geo>>

\* assignTrip(truckId, destination) (lines 602-613).
AssignTrip ==
    /\ cmds < MaxCmds
    /\ \E truckId \in TruckIdInputs, destination \in Destinations :
        /\ trucks' = AssignUpdater(trucks, truckId, destination)
        /\ lastCmd' = Cmd("assignTrip", truckId, UnknownAlertId, lastCmd)
    /\ cmds' = cmds + 1
    /\ UNCHANGED <<alerts, fuelConsumptionData, fuelLossHistory, now, ticks, geo>>

\* acknowledgeAlert(alertId) (lines 596-600).
AcknowledgeAlert ==
    /\ cmds < MaxCmds
    /\ \E alertId \in AlertIdInputs :
        /\ alerts' = AcknowledgeUpdater(alerts, alertId)
        /\ lastCmd' = Cmd("acknowledgeAlert", "", alertId, lastCmd)
    /\ cmds' = cmds + 1
    /\ UNCHANGED <<trucks, fuelConsumptionData, fuelLossHistory, now, ticks, geo>>

Next == Tick \/ AssignTrip \/ AcknowledgeAlert

Spec == Init /\ [][Next]_vars

(***************************************************************************)
(* A long-running session: the state the hook is in after SessionCycles    *)
(* rounds of "assignTrip on every truck to the place it stands at, then    *)
(* two ticks" (allocation, then arrival with one drain step).              *)
(***************************************************************************)
SessionCycles == 246

\* The draws of the session's ticks: the largest per-compartment allocation and
\* the smallest drain (two compartments offload per trip), an ambient alert.
Trip == Draw(Pos(0, 0), 2500, Four(1999), Four(40), Four(20), Four(FALSE), Four(50),
             FALSE, 50, FALSE, FALSE, FALSE, TRUE, 0)

World(tr, al, samples, history, t) ==
    [trucks |-> tr, alerts |-> al, fuelConsumptionData |-> samples,
     fuelLossHistory |-> history, now |-> t]

\* One tick of the whole hook state, every truck drawing d.
Committed(w, results) ==
    World(TickTrucks(results), TickAlerts(w.alerts, results),
          TickSamples(w.fuelConsumptionData, results),
          TickHistory(w.fuelLossHistory, results), w.now + 1)

TickWorld(w, d) ==
    Committed(w, TickResults(w.trucks, [i \in 1..Len(w.trucks) |-> d], w.now + 1))

\* assignTrip for trucks i..n, each to a destination at its own position.
RECURSIVE AssignHere(_, _)
AssignHere(tr, i) ==
    IF i > Len(tr) THEN tr
    ELSE AssignHere(AssignUpdater(tr, tr[i].id,
                                  Place(tr[i].position.lat, tr[i].position.lng, "here")),
                    i + 1)

\* assignTrip on every truck, then the tick that starts the deliveries.
StartTrips(w) == TickWorld([w EXCEPT !.trucks = AssignHere(w.trucks, 1)], Trip)

\* n rounds of StartTrips and the tick in which every truck arrives.
RECURSIVE Session(_, _)
Session(w, n) ==
    IF w.now < 0 \/ n = 0 THEN w
    ELSE IF n = 1 THEN TickWorld(StartTrips(w), Trip)
    ELSE Session(Session(w, n \div 2), n - (n \div 2))

\* The session is observed with every truck on its next delivery.
SessionInit ==
    LET w == StartTrips(Session(World(DemoFleet, <<>>, <<>>, <<>>, 0), SessionCycles))
    IN  /\ trucks = w.trucks
        /\ alerts = w.alerts
        /\ fuelConsumptionData = w.fuelConsumptionData
        /\ fuelLossHistory = w.fuelLossHistory
        /\ now = w.now
        /\ lastCmd = NoCmd("init")
        /\ ticks = 0
        /\ cmds = 0
        /\ geo = NoGeo

SpecSession == SessionInit /\ [][Next]_vars

(***************************************************************************)
(* A delivery near its end: the state HaulTicks ticks after                *)
(* assignTrip(TK001, Ghala Depot) on the seed fleet.  TK001, TK002 and     *)
(* TK003 are delivering all the time (the position noise holds them away   *)
(* from their destinations); four thefts hit the fleet once the small      *)
(* targets are delivered.                                                  *)
(***************************************************************************)
HaulTicks == 33

\* The ticks before and after the thefts: 500 L for the first three
\* compartments and 1999 L for the fourth, the largest drain, no incident.
Haul == Draw(Pos(0, -50), 3499, <<500, 500, 500, 1999>>, Four(40), Four(59),
             Four(FALSE), Four(50), FALSE, 50, FALSE, FALSE, FALSE, FALSE, 0)
\* The same with the largest theft.
HaulTheft == Draw(Pos(0, -50), 3499, <<500, 500, 500, 1999>>, Four(40), Four(59),
                  Four(FALSE), Four(50), TRUE, 149, FALSE, FALSE, FALSE, FALSE, 0)

\* n ticks of the whole hook state, every truck drawing d.
RECURSIVE Ticks(_, _, _)
Ticks(w, d, n) ==
    IF w.now < 0 \/ n = 0 THEN w
    ELSE IF n = 1 THEN TickWorld(w, d)
    ELSE Ticks(Ticks(w, d, n \div 2), d, n - (n \div 2))

HaulInit ==
    LET start == World(AssignUpdater(DemoFleet, "TK001", GHALA_DEPOT), <<>>, <<>>, <<>>, 0)
        w == Ticks(Ticks(Ticks(start, Haul, 10), HaulTheft, 4), Haul, HaulTicks - 14)
    IN  /\ trucks = w.trucks
        /\ alerts = w.alerts
        /\ fuelConsumptionData = w.fuelConsumptionData
        /\ fuelLossHistory = w.fuelLossHistory
        /\ now = w.now
        /\ lastCmd = NoCmd("init")
        /\ ticks = 0
        /\ cmds = 0
        /\ geo = NoGeo

SpecHaul == HaulInit /\ [][Next]_vars

(***************************************************************************)
(* A trip about to end with the largest loss: TK003 is seeded 0.006 degree *)
(* east of Ghala Depot (seedAround spreads it up to 0.0147 degree) and     *)
(* sent there; TripTicks ticks later its four compartments have delivered  *)
(* their 625 L, each with a loss of 2.49 %, and the truck is still outside *)
(* the arrival radius.                                                     *)
(***************************************************************************)
TripTicks == 12

\* The ticks of the trip: the allocation spends all of the 2500 L, the drain
\* is the largest, every compartment draws the largest loss, the truck moves
\* straight.
Shrinkage == Draw(Pos(0, 0), 2500, Four(625), Four(40), Four(59), Four(TRUE), Four(249),
                  FALSE, 50, FALSE, FALSE, FALSE, FALSE, 0)

TripFleet == [DemoFleet EXCEPT ![3] = TK003(Pos(GHALA_DEPOT.lat, GHALA_DEPOT.lng + 600))]

TripInit ==
    LET start == World(AssignUpdater(TripFleet, "TK003", GHALA_DEPOT), <<>>, <<>>, <<>>, 0)
        w == Ticks(start, Shrinkage, TripTicks)
    IN  /\ trucks = w.trucks
        /\ alerts = w.alerts
        /\ fuelConsumptionData = w.fuelConsumptionData
        /\ fuelLossHistory = w.fuelLossHistory
        /\ now = w.now
        /\ lastCmd = NoCmd("init")
        /\ ticks = 0
        /\ cmds = 0
        /\ geo = NoGeo

SpecTrip == TripInit /\ [][Next]_vars

(***************************************************************************)
(* The interval left running on the seed fleet, with no command: the       *)
(* callback fires every 1500 ms for as long as the hook is mounted (weak   *)
(* fairness of the tick).  Every tick draws the same outcomes: no          *)
(* incident, and the position noise at its westernmost value.  The clock   *)
(* is kept modulo ClockWrap ticks, which keeps the state space finite; the *)
(* tick reads it only to stamp what it appends.                            *)
(***************************************************************************)
ClockWrap == 8

\* (Math.random() - 0.5) * 0.001 = -0.0005 on the longitude: a wind from the
\* east that blows against TK002 and TK003, whose destinations lie east.
Headwind == Draw(Pos(0, -50), 2500, Four(500), Four(40), Four(20), Four(FALSE), Four(50),
                 FALSE, 50, FALSE, FALSE, FALSE, FALSE, 0)

\* The interval callback (lines 149-574) under the headwind.
Drive ==
    /\ Commit(TickResults(trucks, [i \in 1..Len(trucks) |-> Headwind], now + 1))
    /\ now' = (now + 1) % ClockWrap
    /\ lastCmd' = NoCmd("tick")
    /\ UNCHANGED <<ticks, cmds, geo>>

\* The interval keeps firing: the clock keeps advancing, and the only step
\* that advances it is Drive.
Ticking == now' = (now + 1) % ClockWrap

SpecDrive == Init /\ [][Drive]_vars /\ WF_now(Ticking)

(***************************************************************************)
(* The geofence library (src/unnamed/part_004, geofence.ts).  Coordinates  *)
(* are integers; in zone data one unit is 1e-5 degree.                     *)
(***************************************************************************)
\* A GeoZone (lines 6-15); polygon, center and radius are optional.
GeoZone(id, shape, polygon, center, radius) ==
    [id |-> id, shape |-> shape, polygon |-> polygon, center |-> center, radius |-> radius]

\* A faulty loop that CentroidIsInside rejects: j starts at the first vertex
\* instead of the last, so the edge that closes the ring is never tested.
RECURSIVE RayCastOpenRing(_, _, _, _, _)
RayCastOpenRing(lat, lng, polygon, i, inside) ==
    IF i > Len(polygon) THEN inside
    ELSE LET j == IF i = 1 THEN 1 ELSE i - 1
             xi == polygon[i].lng
             yi == polygon[i].lat
             xj == polygon[j].lng
             yj == polygon[j].lat
             intersects ==
                 /\ (yi > lat) # (yj > lat)
                 /\ IF yj - yi > 0
                    THEN (lng - xi) * (yj - yi) < (xj - xi) * (lat - yi)
                    ELSE (lng - xi) * (yj - yi) > (xj - xi) * (lat - yi)
         IN  RayCastOpenRing(lat, lng, polygon, i + 1, IF intersects THEN ~inside ELSE inside)

\* The ray-casting loop of lines 118-127 from vertex i on, j being the vertex
\* before i (the last one for the first).  The float comparison
\* lng < (xj - xi) * (lat - yi) / (yj - yi) + xi is made exactly, multiplied
\* out by yj - yi, which is nonzero when the first conjunct holds.
RECURSIVE RayCast(_, _, _, _, _)
RayCast(lat, lng, polygon, i, inside) ==
    IF i > Len(polygon) THEN inside
    ELSE LET j == IF i = 1 THEN Len(polygon) ELSE i - 1
             xi == polygon[i].lng
             yi == polygon[i].lat
             xj == polygon[j].lng
             yj == polygon[j].lat
             intersects ==
                 /\ (yi > lat) # (yj > lat)
                 /\ IF yj - yi > 0
                    THEN (lng - xi) * (yj - yi) < (xj - xi) * (lat - yi)
                    ELSE (lng - xi) * (yj - yi) > (xj - xi) * (lat - yi)
         IN  RayCast(lat, lng, polygon, i + 1, IF intersects THEN ~inside ELSE inside)

\* pointInPolygon (lines 111-129).
pointInPolygon(lat, lng, polygon) == RayCast(lat, lng, polygon, 1, FALSE)

\* Math.sqrt to the integer below: the largest n in lo..hi with n * n <= x.
RECURSIVE Isqrt(_, _, _)
Isqrt(x, lo, hi) ==
    IF lo >= hi THEN lo
    ELSE LET mid == (lo + hi + 1) \div 2
         IN  IF mid * mid <= x THEN Isqrt(x, mid, hi) ELSE Isqrt(x, lo, mid - 1)

\* haversineDistanceMeters (lines 131-150) for points a few kilometres apart
\* around latitude 23.6 degrees, to the metre: with R = 6371000 one unit of
\* latitude is R * pi / 180 * 1e-5 = 1.1119 m and one unit of longitude
\* 1.1119 * cos(23.6 degrees) = 1.0189 m; the haversine of so small an arc is
\* the plane distance (relative error below 1e-3).
haversineDistanceMeters(a, b) ==
    LET north == ((b.lat - a.lat) * 11119) \div 10000
        east == ((b.lng - a.lng) * 10189) \div 10000
    IN  Isqrt(north * north + east * east, 0, 46340)

\* isInsideCircle (lines 152-159).
isInsideCircle(lat, lng, center, radiusMeters) ==
    haversineDistanceMeters(Pos(lat, lng), center) <= radiusMeters

\* A faulty isInZone that ZonesAreFiltered rejects: the geometry present
\* decides, whatever zone.shape says.
isInZoneByGeometry(lat, lng, zone) ==
    IF zone.center # None /\ zone.radius # None
    THEN isInsideCircle(lat, lng, zone.center[1], zone.radius[1])
    ELSE IF zone.polygon # None
    THEN pointInPolygon(lat, lng, zone.polygon[1])
    ELSE FALSE

\* isInZone (lines 191-198).
isInZone(lat, lng, zone) ==
    IF zone.shape = "circle" /\ zone.center # None /\ zone.radius # None
    THEN isInsideCircle(lat, lng, zone.center[1], zone.radius[1])
    ELSE IF zone.shape = "polygon" /\ zone.polygon # None
    THEN pointInPolygon(lat, lng, zone.polygon[1])
    ELSE FALSE

\* zonesContainingPoint (lines 203-207): zones.filter(z => isInZone(lat, lng, z)).
RECURSIVE zonesContainingPoint(_, _, _)
zonesContainingPoint(lat, lng, zones) ==
    IF zones = <<>> THEN <<>>
    ELSE (IF isInZone(lat, lng, Head(zones)) THEN <<Head(zones)>> ELSE <<>>)
         \o zonesContainingPoint(lat, lng, Tail(zones))

(***************************************************************************)
(* Arguments offered to the geofence library.                              *)
(***************************************************************************)
MaxZones == 3
GridMax == 2
\* Triangles and quadrilaterals.
RingSizes == {3, 4}

\* depot-1 and depot-2 of GEOFENCE_ZONES (lines 22-41).
AirportDepotRing ==
    << Pos(2359260, 5828390), Pos(2359260, 5828510),
       Pos(2359360, 5828510), Pos(2359360, 5828390) >>
Depot1 == GeoZone("depot-1", "polygon", Some(AirportDepotRing), None, None)
Depot2 == GeoZone("depot-2", "circle", None, Some(Pos(2357900, 5837700)), Some(250))
\* A polygon zone around Ghala Depot that overlaps depot-2, and which also
\* carries the fields of a circle that holds every query point.
GhalaYard ==
    GeoZone("yard", "polygon",
            Some(<< Pos(2357600, 5837400), Pos(2357600, 5838000),
                    Pos(2358200, 5838000), Pos(2358200, 5837400) >>),
            Some(Pos(2357900, 5837700)), Some(20000))
\* A circle zone of radius 0, and the malformed zones: a circle without radius
\* (but with a ring that holds the depot), a circle without center, a polygon
\* without ring (but with the circle fields of depot-2).
Point0 == GeoZone("point", "circle", None, Some(Pos(2357900, 5837700)), Some(0))
NoRadius == GeoZone("no-radius", "circle", GhalaYard.polygon, Some(Pos(2357900, 5837700)), None)
NoCenter == GeoZone("no-center", "circle", None, None, Some(250))
NoRing == GeoZone("no-ring", "polygon", None, Some(Pos(2357900, 5837700)), Some(250))

ZonePool == {Depot1, Depot2, GhalaYard, Point0, NoRadius, NoCenter, NoRing}
ZoneLists == UNION {[1..n -> ZonePool] : n \in 0..MaxZones}

\* The centre of Ghala Depot, a point 100 units north of it (in depot-2 and the
\* yard), one 280 units east (in the yard only), the point of the spec's
\* scenario 4 (in neither), one in the Airport Depot polygon.
QueryPoints ==
    { Pos(2357900, 5837700), Pos(2358000, 5837700), Pos(2357900, 5837980),
      Pos(2358590, 5840590), Pos(2359310, 5828450) }

\* The vertices offered to pointInPolygon: a grid whose coordinates are
\* multiples of 60, so that the average of 3 or 4 vertices is a grid-exact
\* point.
Grid == {60 * k : k \in 0..GridMax}
GridPoints == {Pos(lat, lng) : lat \in Grid, lng \in Grid}

\* (q - p) x (r - p): positive when r lies to the left of the line from p to q.
Cross(p, q, r) == (q.lng - p.lng) * (r.lat - p.lat) - (q.lat - p.lat) * (r.lng - p.lng)

\* A ring of distinct vertices that is a convex polygon of positive area, in
\* either orientation: every other vertex lies strictly on one and the same
\* side of every edge.
IsConvexRing(ring) ==
    LET n == Len(ring)
        next(i) == (i % n) + 1
        others(i) == (1..n) \ {i, next(i)}
    IN  /\ n >= 3
        /\ \/ \A i \in 1..n : \A k \in others(i) : Cross(ring[i], ring[next(i)], ring[k]) > 0
           \/ \A i \in 1..n : \A k \in others(i) : Cross(ring[i], ring[next(i)], ring[k]) < 0

\* Every convex ring on the grid, from every starting vertex and in both
\* orientations, and the ring of depot-1.
ConvexRings ==
    {AirportDepotRing}
        \cup UNION {{ring \in [1..n -> GridPoints] : IsConvexRing(ring)} : n \in RingSizes}

\* The vertex average of a ring (exact on these rings).
Centroid(ring) ==
    Pos(SumSeq([i \in 1..Len(ring) |-> ring[i].lat]) \div Len(ring),
        SumSeq([i \in 1..Len(ring) |-> ring[i].lng]) \div Len(ring))

\* The bounding box of a ring.
MinOf(S) == CHOOSE x \in S : \A y \in S : x <= y
MaxIn(S) == CHOOSE x \in S : \A y \in S : x >= y
Lats(ring) == {ring[i].lat : i \in DOMAIN ring}
Lngs(ring) == {ring[i].lng : i \in DOMAIN ring}
OutsideBox(lat, lng, ring) ==
    \/ lat < MinOf(Lats(ring)) \/ lat > MaxIn(Lats(ring))
    \/ lng < MinOf(Lngs(ring)) \/ lng > MaxIn(Lngs(ring))

\* The points asked about a ring: its centroid, a point beyond each side of its
\* bounding box at the height of a vertex or of the centroid, and a corner
\* point beyond two sides.
RingPoints(ring) ==
    LET c == Centroid(ring)
    IN  { c,
          Pos(MinOf(Lats(ring)) - 1, c.lng), Pos(MaxIn(Lats(ring)) + 1, c.lng),
          Pos(c.lat, MinOf(Lngs(ring)) - 1), Pos(c.lat, MaxIn(Lngs(ring)) + 1),
          Pos(ring[1].lat, MinOf(Lngs(ring)) - 60), Pos(ring[1].lat, MaxIn(Lngs(ring)) + 60),
          Pos(MaxIn(Lats(ring)) + 60, MaxIn(Lngs(ring)) + 60) }

(***************************************************************************)
(* The library in use: a caller holds the arguments of a call, the call    *)
(* returns.  The hook is not mounted (its states are empty, lines 111-115).*)
(***************************************************************************)
GeoInit ==
    /\ trucks = <<>>
    /\ alerts = <<>>
    /\ fuelConsumptionData = <<>>
    /\ fuelLossHistory = <<>>
    /\ now = 0
    /\ lastCmd = NoCmd("init")
    /\ ticks = 0
    /\ cmds = 0
    /\ \/ \E p \in QueryPoints, zones \in ZoneLists :
              geo = GeoCall("zonesContainingPoint", p.lat, p.lng, zones, <<>>, None)
       \/ \E ring \in ConvexRings :
              \E p \in RingPoints(ring) :
                  geo = GeoCall("pointInPolygon", p.lat, p.lng, <<>>, ring, None)

ZonesContainingPointReturns ==
    /\ geo.op = "zonesContainingPoint" /\ geo.result = None
    /\ geo' = [geo EXCEPT !.result = Some(zonesContainingPoint(geo.lat, geo.lng, geo.zones))]
    /\ UNCHANGED <<trucks, alerts, fuelConsumptionData, fuelLossHistory, now, lastCmd, ticks, cmds>>

PointInPolygonReturns ==
    /\ geo.op = "pointInPolygon" /\ geo.result = None
    /\ geo' = [geo EXCEPT !.result = Some(pointInPolygon(geo.lat, geo.lng, geo.polygon))]
    /\ UNCHANGED <<trucks, alerts, fuelConsumptionData, fuelLossHistory, now, lastCmd, ticks, cmds>>

GeoNext == ZonesContainingPointReturns \/ PointInPolygonReturns

SpecGeo == GeoInit /\ [][GeoNext]_vars

(***************************************************************************)
(* Properties.                                                             *)
(***************************************************************************)
Compartments == {<<i, j>> \in (DOMAIN trucks) \X (1..4) : j \in DOMAIN trucks[i].compartments}
CompAt(ij) == trucks[ij[1]].compartments[ij[2]]

\* A step of the interval callback / of a command.
IsTick == now' = now + 1
IsCommand == cmds' = cmds + 1

\* C1: in every reachable state every compartment of every truck has
\* 0 <= currentLevel <= capacity.
LevelsInRange ==
    \A ij \in Compartments :
        0 <= CompAt(ij).currentLevel /\ CompAt(ij).currentLevel <= CompAt(ij).capacity

\* A state after a drain step, a theft and an uplift refill: litres were
\* delivered, a theft alert is listed and TK005 stands above its seed level.
LevelsInRangeWitness ==
    /\ \E ij \in Compartments : Or0(CompAt(ij).deliveredLiters) > 0
    /\ \E a \in DOMAIN alerts : alerts[a].type = "theft"
    /\ trucks[5].status = "uplifting"
    /\ trucks[5].compartments[1].currentLevel > 3200

\* C2: every compartment whose targetDelivery is set has
\* 0 <= deliveredLiters <= targetDelivery (an unset deliveredLiters reads 0).
DeliveredWithinTarget ==
    \A ij \in Compartments :
        CompAt(ij).targetDelivery # None =>
            /\ 0 <= Or0(CompAt(ij).deliveredLiters)
            /\ Or0(CompAt(ij).deliveredLiters) <= CompAt(ij).targetDelivery[1]

\* C3: the trail of every truck holds at most 20 entries.
TrailAtMost20 == \A i \in DOMAIN trucks : Len(trucks[i].trail) <= 20

\* C4: the alerts list never holds more than 50 entries and the fuel-loss
\* history never more than 500.
AlertsAndHistoryCapped == Len(alerts) <= 50 /\ Len(fuelLossHistory) <= 500

\* Both streams are full and the last tick pushed several alerts and a
\* history entry onto them.
AlertsAndHistoryCappedWitness ==
    /\ lastCmd.op = "tick"
    /\ Len(alerts) = 50 /\ Len(fuelLossHistory) = 500
    /\ alerts[1].timestamp \div TickMs = now
    /\ alerts[2].timestamp \div TickMs = now
    /\ fuelLossHistory[500].timestamp \div TickMs = now

\* C5: the fuel-consumption stream never holds more than 1000 samples.
SamplesAtMost1000 == Len(fuelConsumptionData) <= 1000

\* C6: no two alerts of the list have the same id.
AlertIdsUnique ==
    \A a, b \in DOMAIN alerts : a # b => alerts[a].id # alerts[b].id

\* The status edges a tick may take, from the truck before to the truck after.
Edge(before, after) ==
    \/ before.status = "idle" /\ after.status = "idle"
    \/ before.status = "assigned" /\ after.status = "delivering"
    \/ before.status = "delivering" /\ after.status = "delivering"
    \/ /\ before.status = "delivering" /\ after.status = "completed"
       /\ before.destination # None
       /\ Arrived(after.position, before.destination[1])
    \/ before.status = "completed" /\ after.status = "uplifting"
    \/ before.status = "uplifting" /\ after.status = "uplifting"
    \/ /\ before.status = "uplifting" /\ after.status = "idle"
       /\ \A j \in DOMAIN after.compartments :
              after.compartments[j].currentLevel >= Pct(after.compartments[j].capacity, 95)

\* C7: a tick changes the status of a truck only along idle->idle,
\* assigned->delivering, delivering->delivering, delivering->completed (only
\* within 0.005 degree of the destination after the move), completed->uplifting,
\* uplifting->uplifting and uplifting->idle (only with every compartment at 95 %
\* of capacity after the refill).
TickEdges ==
    [][IsTick => /\ DOMAIN trucks' = DOMAIN trucks
                 /\ \A i \in DOMAIN trucks : Edge(trucks[i], trucks'[i])]_vars

\* TK003 has gone round the whole lifecycle and is idle after a tick; TK004
\* has left completed.
TickEdgesWitness ==
    /\ lastCmd.op = "tick"
    /\ trucks[3].status = "idle"
    /\ trucks[3].currentAssignment # None
    /\ trucks[4].status = "uplifting"

\* ceil(a / b) for b > 0.
CeilDiv(a, b) == -((-a) \div b)

RECURSIVE MaxOf(_)
MaxOf(s) == IF s = <<>> THEN 0 ELSE Max(s[1], MaxOf(Tail(s)))

\* The bound of C8: the maximum over the compartments of
\* ceil((0.95 * capacity - currentLevel) / 40), and at least one tick.
UpliftBound(truck) ==
    Max(1, MaxOf([j \in 1..Len(truck.compartments) |->
                    CeilDiv(Pct(truck.compartments[j].capacity, 95)
                                - truck.compartments[j].currentLevel, 40)]))

\* C8: an uplifting truck reaches idle within UpliftBound ticks: each tick
\* either makes it idle or leaves it uplifting with a bound at least one
\* smaller (so a bound of 1 means idle after this tick).
UpliftBoundDecreases ==
    [][IsTick =>
        \A i \in DOMAIN trucks :
            trucks[i].status = "uplifting" =>
                \/ trucks'[i].status = "idle"
                \/ /\ trucks'[i].status = "uplifting"
                   /\ UpliftBound(trucks'[i]) <= UpliftBound(trucks[i]) - 1]_vars

\* TK003 came back to idle through an uplift while TK005, still uplifting,
\* has gained at least 40 L per tick in every compartment.
UpliftBoundWitness ==
    /\ ticks >= 4
    /\ trucks[3].status = "idle"
    /\ \E j \in DOMAIN trucks[3].logs : trucks[3].logs[j] = "Uplift completed"
    /\ trucks[5].status = "uplifting"
    /\ UpliftBound(trucks[5]) <= UpliftBound(DemoFleet[5]) - ticks

\* What one acknowledgeAlert(id) call leaves: the same alerts in the same
\* order, those named id acknowledged, the others untouched.
Acknowledged(before, after, id) ==
    /\ Len(after) = Len(before)
    /\ \A i \in DOMAIN before :
          /\ after[i].id = before[i].id
          /\ after[i].id = id => after[i] = [before[i] EXCEPT !.acknowledged = TRUE]
          /\ after[i].id # id => after[i] = before[i]

\* C9: acknowledgeAlert(id) sets the flag of the alert named id and keeps
\* length and order; a second acknowledgeAlert(id) right after the first
\* leaves the state of the first.
AcknowledgeIdempotent ==
    [][(IsCommand /\ lastCmd'.op = "acknowledgeAlert") =>
        /\ Acknowledged(alerts, alerts', lastCmd'.alertId)
        /\ (lastCmd.op = "acknowledgeAlert" /\ lastCmd.alertId = lastCmd'.alertId)
              => alerts' = alerts
        /\ UNCHANGED <<trucks, fuelConsumptionData, fuelLossHistory>>]_vars

\* acknowledgeAlert was called twice in a row on an alert of the list.
AcknowledgeIdempotentWitness ==
    /\ lastCmd.op = "acknowledgeAlert"
    /\ lastCmd.prev.op = "acknowledgeAlert"
    /\ lastCmd.prev.alertId = lastCmd.alertId
    /\ \E i \in DOMAIN alerts : alerts[i].id = lastCmd.alertId /\ alerts[i].acknowledged

\* C10: assignTrip with a truckId no truck has, and acknowledgeAlert with an
\* alertId no alert has, change none of trucks, alerts, fuel-loss history and
\* fuel-consumption data.
UnknownIdIsNoOp ==
    [][(/\ IsCommand
        /\ \/ /\ lastCmd'.op = "assignTrip"
              /\ \A i \in DOMAIN trucks : trucks[i].id # lastCmd'.truckId
           \/ /\ lastCmd'.op = "acknowledgeAlert"
              /\ \A i \in DOMAIN alerts : alerts[i].id # lastCmd'.alertId)
       => UNCHANGED <<trucks, alerts, fuelLossHistory, fuelConsumptionData>>]_vars

\* Both commands were issued with an unknown id, on a state with alerts.
UnknownIdIsNoOpWitness ==
    /\ alerts # <<>>
    /\ lastCmd.op = "acknowledgeAlert"
    /\ \A i \in DOMAIN alerts : alerts[i].id # lastCmd.alertId
    /\ lastCmd.prev.op = "assignTrip"
    /\ \A i \in DOMAIN trucks : trucks[i].id # lastCmd.prev.truckId

\* A truck that differs from `before` at most in status, destination and
\* startPoint.
SameButTrip(before, after) ==
    [after EXCEPT !.status = before.status,
                  !.destination = before.destination,
                  !.startPoint = before.startPoint] = before

\* C11: assignTrip on an existing idle truck sets its status to assigned, its
\* destination to the given one and its startPoint to its position, and changes
\* nothing else of that truck, no other truck and none of the streams.
AssignTripOnIdle ==
    [][(IsCommand /\ lastCmd'.op = "assignTrip") =>
        \A i \in DOMAIN trucks :
            (trucks[i].id = lastCmd'.truckId /\ trucks[i].status = "idle") =>
                /\ DOMAIN trucks' = DOMAIN trucks
                /\ trucks'[i].status = "assigned"
                /\ \E destination \in Destinations :
                       trucks'[i].destination = Some(destination)
                /\ trucks'[i].startPoint = Some(trucks[i].position)
                /\ SameButTrip(trucks[i], trucks'[i])
                /\ \A k \in DOMAIN trucks \ {i} : trucks'[k] = trucks[k]
                /\ UNCHANGED <<alerts, fuelConsumptionData, fuelLossHistory>>]_vars

\* assignTrip has just been called on TK001, idle since the start, in a state
\* with alerts.
AssignTripOnIdleWitness ==
    /\ lastCmd.op = "assignTrip"
    /\ lastCmd.truckId = "TK001"
    /\ lastCmd.prev.truckId # "TK001"
    /\ trucks[1].status = "assigned"
    /\ trucks[1].currentAssignment = None
    /\ trucks[1].startPoint = Some(trucks[1].position)
    /\ alerts # <<>>

\* C12: assignTrip on a truck that is not idle leaves the truck's status,
\* destination, startPoint and running delivery unchanged.
AssignTripOnBusyIsNoOp ==
    [][(IsCommand /\ lastCmd'.op = "assignTrip") =>
        \A i \in DOMAIN trucks :
            (trucks[i].id = lastCmd'.truckId /\ trucks[i].status # "idle") =>
                /\ trucks'[i].status = trucks[i].status
                /\ trucks'[i].destination = trucks[i].destination
                /\ trucks'[i].startPoint = trucks[i].startPoint
                /\ trucks'[i].compartments = trucks[i].compartments
                /\ trucks'[i].currentAssignment = trucks[i].currentAssignment]_vars

\* The trucks a step moves from delivering to completed.
Completing ==
    {i \in DOMAIN trucks : trucks[i].status = "delivering" /\ trucks'[i].status = "completed"}

\* The last k entries of the fuel-loss history after a step are new, the
\* entries before them are the most recent old ones.
HistoryGrewBy(k) ==
    /\ Len(fuelLossHistory') = Min(500, Len(fuelLossHistory) + k)
    /\ SubSeq(fuelLossHistory', 1, Len(fuelLossHistory') - k)
           = SliceLast(fuelLossHistory, Len(fuelLossHistory') - k)

\* lossPercent = (lossLiters / assignedLiters) * 100, exactly.
EntryPercentExact(entry) ==
    /\ entry.assignedLiters > 0
    /\ entry.lossPercent.num * entry.assignedLiters
           = entry.lossLiters * 100 * entry.lossPercent.den

\* C13: a tick appends to the fuel-loss history exactly one entry for each truck
\* it moves from delivering to completed and no other entry, each entry has
\* lossPercent = lossLiters / assignedLiters * 100, and no command appends one.
OneEntryPerCompletion ==
    [][/\ IsTick =>
            LET k == Cardinality(Completing)
                n == Len(fuelLossHistory')
            IN  /\ HistoryGrewBy(k)
                /\ {fuelLossHistory'[j].truckId : j \in (n - k + 1)..n}
                       = {trucks[i].id : i \in Completing}
                /\ \A j \in (n - k + 1)..n : EntryPercentExact(fuelLossHistory'[j])
       /\ IsCommand => fuelLossHistory' = fuelLossHistory]_vars

\* C14: a tick processes every truck exactly once (same fleet, one trail
\* position more per truck) on the state the last command left: the truck named
\* by an assignTrip issued since the previous tick is processed as assigned
\* (it is delivering to the commanded destination afterwards), and an alert
\* acknowledged before the tick is still in the list, acknowledged, unless the
\* cap evicted it.
CommandsSurviveTicks ==
    [][IsTick =>
        /\ DOMAIN trucks' = DOMAIN trucks
        /\ \A i \in DOMAIN trucks :
              /\ trucks'[i].id = trucks[i].id
              /\ trucks'[i].trail
                     = Append(SliceLast(trucks[i].trail, 20), trucks'[i].position)
              /\ (lastCmd.op = "assignTrip" /\ lastCmd.truckId = trucks[i].id) =>
                     /\ trucks[i].status = "assigned"
                     /\ trucks'[i].status = "delivering"
                     /\ trucks'[i].destination = trucks[i].destination
                     /\ trucks'[i].startPoint = trucks[i].startPoint
                     /\ trucks'[i].currentAssignment # None
        /\ \A j \in DOMAIN alerts :
              alerts[j].acknowledged =>
                  \/ \E m \in DOMAIN alerts' : m >= j /\ alerts'[m] = alerts[j]
                  \/ Len(alerts') = 50]_vars

\* After a tick, TK001 is delivering on the trip a command gave it and an
\* acknowledged alert is still listed.
CommandsSurviveTicksWitness ==
    /\ lastCmd.op = "tick"
    /\ trucks[1].status = "delivering"
    /\ trucks[1].destination = Some(GHALA_DEPOT)
    /\ trucks[1].currentAssignment # None
    /\ \E j \in DOMAIN alerts : alerts[j].acknowledged

\* C15: a tick only pushes new, unacknowledged alerts in front of the list and
\* evicts from its old end, and only as far as the cap of 50 requires; the
\* alerts it keeps are unchanged.  A command keeps every alert in place and
\* changes at most its acknowledged flag, from false to true.
AlertsOnlyAcknowledged ==
    [][/\ IsTick =>
            \E k \in 0..Len(alerts') :
                /\ Len(alerts') = Min(50, Len(alerts) + k)
                /\ SubSeq(alerts', k + 1, Len(alerts'))
                       = SliceFirst(alerts, Len(alerts') - k)
                /\ \A j \in 1..k : ~alerts'[j].acknowledged
       /\ IsCommand =>
            /\ Len(alerts') = Len(alerts)
            /\ \A j \in DOMAIN alerts :
                  /\ [alerts'[j] EXCEPT !.acknowledged = alerts[j].acknowledged] = alerts[j]
                  /\ alerts[j].acknowledged => alerts'[j].acknowledged]_vars

\* The list is full, the last tick pushed an alert (so it evicted one) and an
\* alert acknowledged before that tick is still listed behind it.
AlertsOnlyAcknowledgedWitness ==
    /\ lastCmd.op = "tick"
    /\ Len(alerts) = 50
    /\ alerts[1].timestamp \div TickMs = now
    /\ \E j \in DOMAIN alerts : alerts[j].acknowledged /\ alerts[j].timestamp \div TickMs < now

\* C16: a truck whose status is idle, completed or uplifting has no
\* currentAssignment.
AssignmentOnlyOnTrip ==
    \A i \in DOMAIN trucks :
        trucks[i].status \in {"idle", "completed", "uplifting"} =>
            trucks[i].currentAssignment = None

\* C17: a truck whose status is idle, completed or uplifting has neither a
\* destination nor a startPoint.
DestinationOnlyOnTrip ==
    \A i \in DOMAIN trucks :
        trucks[i].status \in {"idle", "completed", "uplifting"} =>
            trucks[i].destination = None /\ trucks[i].startPoint = None

\* C17, amended: a truck whose status is idle has neither a destination nor a
\* startPoint (the tick that returns it to idle clears both).
IdleHasNoDestination ==
    \A i \in DOMAIN trucks :
        trucks[i].status = "idle" =>
            trucks[i].destination = None /\ trucks[i].startPoint = None

\* TK003 is back to idle after a trip that had a destination and a startPoint,
\* and has neither now.
IdleHasNoDestinationWitness ==
    /\ trucks[3].status = "idle"
    /\ trucks[3].lastTripSummary # None
    /\ trucks[3].destination = None
    /\ trucks[3].startPoint = None

\* C18: on the tick that moves a truck from assigned to delivering, a
\* currentAssignment is created with 2500 <= assignedLiters <= 5000, the
\* targetDelivery values of the compartments sum to assignedLiters, only a
\* compartment above 10 % of its capacity gets a nonzero target and is marked
\* isOffloading, and every deliveredLiters is 0.
AllocationSumsToAssigned ==
    [][IsTick =>
        \A i \in DOMAIN trucks :
            (trucks[i].status = "assigned" /\ trucks'[i].status = "delivering") =>
                LET old == trucks[i].compartments
                    new == trucks'[i].compartments
                IN  /\ trucks'[i].currentAssignment # None
                    /\ trucks'[i].currentAssignment[1].assignedLiters >= 2500
                    /\ trucks'[i].currentAssignment[1].assignedLiters <= 5000
                    /\ SumSeq([j \in 1..Len(new) |-> Or0(new[j].targetDelivery)])
                           = trucks'[i].currentAssignment[1].assignedLiters
                    /\ \A j \in DOMAIN new :
                          /\ new[j].targetDelivery # None
                          /\ new[j].deliveredLiters = Some(0)
                          /\ new[j].isOffloading <=> new[j].targetDelivery[1] > 0
                          /\ new[j].targetDelivery[1] > 0 =>
                                 old[j].currentLevel > Pct(old[j].capacity, 10)]_vars

\* The truck at position i got a theft alert in the tick that led to the
\* next state.
TheftInTick(i) ==
    \E a \in DOMAIN alerts' :
        /\ alerts'[a].type = "theft"
        /\ alerts'[a].truckId = trucks[i].id
        /\ alerts'[a].timestamp \div TickMs = now'

\* What the drain of one tick does to one compartment, from `old` to `new`;
\* with thief, a theft of 50..149 L may follow the drain in the same tick.
DrainStepOf(old, new, thief) ==
    LET reserve == Pct(old.capacity, 5)
        room == Min(Or0(old.targetDelivery) - Or0(old.deliveredLiters),
                    old.currentLevel - reserve)
        guard == /\ old.isOffloading
                 /\ old.currentLevel > 0
                 /\ Or0(old.deliveredLiters) < Or0(old.targetDelivery)
        drain == Or0(new.deliveredLiters) - Or0(old.deliveredLiters)
    IN  /\ (guard /\ room > 0) =>
              /\ \E drainRate \in 20..59 : drain = Min(drainRate, room)
              /\ old.currentLevel - drain >= reserve
              /\ Or0(new.deliveredLiters) <= Or0(old.targetDelivery)
        /\ ~(guard /\ room > 0) =>
              /\ new.deliveredLiters = old.deliveredLiters
              /\ new.isOffloading = old.isOffloading
              /\ new.targetDelivery = old.targetDelivery
        /\ \/ new.currentLevel = old.currentLevel - drain
           \/ /\ thief
              /\ \E stolenAmount \in 50..149 :
                     new.currentLevel = Max(0, old.currentLevel - drain - stolenAmount)

\* C19: in a tick of a delivering truck, a compartment with isOffloading,
\* currentLevel > 0 and deliveredLiters < targetDelivery gives up
\* min(drainRate, targetDelivery - deliveredLiters, currentLevel - 5 % of
\* capacity) with drainRate in 20..59, and only if that is positive: the level
\* falls and deliveredLiters rises by that amount, the drain stops at the
\* reserve and at the target; any other compartment is left as it is by the
\* drain.
DrainStep ==
    [][IsTick =>
        \A i \in DOMAIN trucks :
            trucks[i].status = "delivering" =>
                \A j \in DOMAIN trucks[i].compartments :
                    DrainStepOf(trucks[i].compartments[j], trucks'[i].compartments[j],
                                TheftInTick(i))]_vars

\* After a tick, the fourth compartment of TK001 has been drained down to the
\* reserve (less than the drain rate and less than what remained to deliver)
\* and the offloading compartment of TK002 up to its target.
DrainStepWitness ==
    /\ lastCmd.op = "tick"
    /\ trucks[1].status = "delivering"
    /\ trucks[1].compartments[4].currentLevel = Pct(trucks[1].compartments[4].capacity, 5)
    /\ trucks[1].compartments[4].deliveredLiters[1] > 1888
    /\ trucks[2].compartments[1].deliveredLiters = trucks[2].compartments[1].targetDelivery

\* The running loss of a truck (0 without a currentAssignment).
ProvisionalLoss(truck) ==
    IF truck.currentAssignment = None THEN 0
    ELSE truck.currentAssignment[1].provisionalLossLiters

TickAlertsOf(i, tag) ==
    {a \in DOMAIN alerts' : /\ alerts'[a].id.tag = tag
                            /\ alerts'[a].truckId = trucks[i].id
                            /\ alerts'[a].timestamp \div TickMs = now'}

\* The litres compartment j of truck i lost in the step beyond what it
\* delivered: its level after the drain minus its level after the step.
LevelAfterDrain(i, j) ==
    trucks[i].compartments[j].currentLevel
        - (Or0(trucks'[i].compartments[j].deliveredLiters)
               - Or0(trucks[i].compartments[j].deliveredLiters))
Stolen(i, j) == LevelAfterDrain(i, j) - trucks'[i].compartments[j].currentLevel

\* What a tick does to the delivering truck i beside the drain, a theft taking
\* lo..hi litres.
TheftStepOf(i, lo, hi) ==
    LET J == DOMAIN trucks[i].compartments
        active == {j \in J : trucks'[i].compartments[j].isOffloading}
        thefts == TickAlertsOf(i, "theft")
    IN  /\ Cardinality(thefts) <= 1
        /\ \A a \in thefts : alerts'[a].type = "theft" /\ alerts'[a].severity = "high"
        /\ \A j \in J :
              /\ trucks'[i].compartments[j].targetDelivery = trucks[i].compartments[j].targetDelivery
              /\ Or0(trucks'[i].compartments[j].deliveredLiters)
                     >= Or0(trucks[i].compartments[j].deliveredLiters)
        \* deliveredLiters moved by the drain only: the flow reading is the drain
        /\ SumSeq([j \in 1..Len(trucks[i].compartments) |->
                      Or0(trucks'[i].compartments[j].deliveredLiters)
                          - Or0(trucks[i].compartments[j].deliveredLiters)])
               = trucks'[i].telemetry.fuelFlow
        /\ thefts # {} =>
              \E v \in active :
                  /\ \E stolenAmount \in lo..hi :
                         trucks'[i].compartments[v].currentLevel
                             = Max(0, LevelAfterDrain(i, v) - stolenAmount)
                  /\ \A j \in J \ {v} : Stolen(i, j) = 0
        /\ thefts = {} => \A j \in J : Stolen(i, j) = 0
        /\ active = {} => thefts = {}

\* C21: a tick with a theft on a delivering truck lowers the level of exactly
\* one compartment still offloading after the drain by 50 to 100 L (floored at
\* 0), leaves deliveredLiters and targetDelivery of every compartment to the
\* drain, and emits exactly one high-severity theft alert for the truck; with
\* no compartment offloading nothing is taken and no theft alert is emitted.
TheftTakes50To100 ==
    [][IsTick => \A i \in DOMAIN trucks :
                     trucks[i].status = "delivering" => TheftStepOf(i, 50, 100)]_vars

\* C21, amended: the same with an amount of 50 to 149 L
\* (Math.floor(Math.random() * 100) + 50).
TheftTakes50To149 ==
    [][IsTick => \A i \in DOMAIN trucks :
                     trucks[i].status = "delivering" => TheftStepOf(i, 50, 149)]_vars

\* The last tick drew every incident (valve alerts at this clock value): the
\* thief took from one of the two compartments TK001 is still offloading,
\* and found nothing on TK002, whose only offloading compartment is done.
TheftWitness ==
    /\ lastCmd.op = "tick"
    /\ trucks[1].status = "delivering"
    /\ Cardinality(ActiveIdx(trucks[1].compartments)) >= 2
    /\ \E a \in DOMAIN alerts : /\ alerts[a].id.tag = "theft"
                                /\ alerts[a].truckId = "TK001"
                                /\ alerts[a].timestamp \div TickMs = now
    /\ trucks[2].status = "delivering"
    /\ ActiveIdx(trucks[2].compartments) = {}
    /\ \E a \in DOMAIN alerts : /\ alerts[a].id.tag = "valve"
                                /\ alerts[a].truckId = "TK002"
                                /\ alerts[a].timestamp \div TickMs = now
    /\ \A a \in DOMAIN alerts : ~(/\ alerts[a].id.tag = "theft"
                                   /\ alerts[a].truckId = "TK002"
                                   /\ alerts[a].timestamp \div TickMs = now)

\* The litres the truck at position i delivered in the step: the sum of the
\* increases of deliveredLiters over its compartments.
DrainedInStep(i) ==
    SumSeq([j \in 1..Len(trucks[i].compartments) |->
               Or0(trucks'[i].compartments[j].deliveredLiters)
                   - Or0(trucks[i].compartments[j].deliveredLiters)])

\* The trucks a tick samples: delivering before the tick, with a drain.
RECURSIVE SampledFrom(_)
SampledFrom(i) ==
    IF i > Len(trucks) THEN <<>>
    ELSE (IF trucks[i].status = "delivering" /\ DrainedInStep(i) > 0 THEN <<i>> ELSE <<>>)
         \o SampledFrom(i + 1)

\* C22: after a tick, a truck that was delivering before it reads as fuelFlow
\* the total its compartments were drained of in the tick, and one sample with
\* that amount is appended for it exactly when the amount is positive; a truck
\* that was not delivering reads fuelFlow 0 and gets no sample.
FlowIsDrain ==
    [][IsTick =>
        LET sampled == SampledFrom(1)
            k == Len(sampled)
            n == Len(fuelConsumptionData')
        IN  /\ \A i \in DOMAIN trucks :
                  trucks'[i].telemetry.fuelFlow
                      = IF trucks[i].status = "delivering" THEN DrainedInStep(i) ELSE 0
            /\ n >= k /\ n - k <= Len(fuelConsumptionData)
            /\ SubSeq(fuelConsumptionData', 1, n - k) = SliceLast(fuelConsumptionData, n - k)
            /\ n - k = Len(fuelConsumptionData) \/ n >= 1000
            /\ \A m \in 1..k :
                  /\ fuelConsumptionData'[n - k + m].truckId = trucks[sampled[m]].id
                  /\ fuelConsumptionData'[n - k + m].liters = DrainedInStep(sampled[m])
                  /\ fuelConsumptionData'[n - k + m].timestamp \div TickMs = now']_vars

\* After a tick of three delivering trucks: TK001 was drained and sampled,
\* TK002, with nothing left to offload, reads 0 and was not sampled, and the
\* uplifting TK005 reads 0.
FlowIsDrainWitness ==
    /\ lastCmd.op = "tick"
    /\ trucks[1].status = "delivering" /\ trucks[1].telemetry.fuelFlow > 0
    /\ \E m \in DOMAIN fuelConsumptionData :
           /\ fuelConsumptionData[m].truckId = "TK001"
           /\ fuelConsumptionData[m].timestamp \div TickMs = now
           /\ fuelConsumptionData[m].liters = trucks[1].telemetry.fuelFlow
    /\ trucks[2].status = "delivering" /\ trucks[2].telemetry.fuelFlow = 0
    /\ \A m \in DOMAIN fuelConsumptionData :
           ~(/\ fuelConsumptionData[m].truckId = "TK002"
             /\ fuelConsumptionData[m].timestamp \div TickMs = now)
    /\ trucks[5].status = "uplifting" /\ trucks[5].telemetry.fuelFlow = 0

\* C23: a tick on an idle truck changes only its position, telemetry and trail
\* (status, compartments, destination, startPoint, currentAssignment and logs
\* stay), and the only step that takes a truck out of idle is an assignTrip on
\* it, which leaves its compartments alone.
IdleTickFrame ==
    [][\A i \in DOMAIN trucks :
          trucks[i].status = "idle" =>
              /\ IsTick =>
                     trucks'[i] = [trucks[i] EXCEPT !.position = trucks'[i].position,
                                                    !.telemetry = trucks'[i].telemetry,
                                                    !.trail = trucks'[i].trail]
              /\ trucks'[i].compartments = trucks[i].compartments
              /\ trucks'[i].status # "idle" =>
                     /\ IsCommand
                     /\ lastCmd'.op = "assignTrip"
                     /\ lastCmd'.truckId = trucks[i].id]_vars

\* TK001 has been idle through several ticks: it has drifted away from its
\* seed position and its compartments are those of the seed data; TK003 is
\* idle again after a whole trip.
IdleTickFrameWitness ==
    /\ lastCmd.op = "tick"
    /\ ticks >= 3
    /\ trucks[1].status = "idle"
    /\ trucks[1].position # DemoFleet[1].position
    /\ Len(trucks[1].trail) = ticks + 1
    /\ trucks[1].compartments = DemoFleet[1].compartments
    /\ trucks[3].status = "idle"
    /\ trucks[3].lastTripSummary # None

\* The sum of deliveredLiters over the compartments of a truck.
DeliveredTotal(truck) ==
    SumSeq([j \in 1..Len(truck.compartments) |-> Or0(truck.compartments[j].deliveredLiters)])

\* C24: after the tick that moves a truck with a currentAssignment from
\* delivering to completed, lastTripSummary and the truck's new fuel-loss
\* history entry carry the sum of deliveredLiters over the compartments and
\* the provisionalLossLiters of the state after the tick.
SummaryIsSnapshot ==
    [][IsTick =>
        \A i \in Completing :
            trucks[i].currentAssignment # None =>
                /\ trucks'[i].lastTripSummary # None
                /\ trucks'[i].lastTripSummary[1].deliveredLiters = DeliveredTotal(trucks'[i])
                /\ trucks'[i].lastTripSummary[1].lossLiters = ProvisionalLoss(trucks'[i])
                /\ \A m \in DOMAIN fuelLossHistory' :
                      (/\ fuelLossHistory'[m].truckId = trucks[i].id
                       /\ fuelLossHistory'[m].timestamp \div TickMs = now') =>
                          /\ fuelLossHistory'[m].deliveredLiters = DeliveredTotal(trucks'[i])
                          /\ fuelLossHistory'[m].lossLiters = ProvisionalLoss(trucks'[i])]_vars

\* isInZone as C25 words it: the circle test for a circle zone with center and
\* radius, the polygon test for a polygon zone with a ring, false otherwise.
InZoneAsSpecified(lat, lng, zone) ==
    \/ /\ zone.shape = "circle" /\ zone.center # None /\ zone.radius # None
       /\ isInsideCircle(lat, lng, zone.center[1], zone.radius[1])
    \/ /\ zone.shape = "polygon" /\ zone.polygon # None
       /\ pointInPolygon(lat, lng, zone.polygon[1])

\* C25: zonesContainingPoint(lat, lng, zones) returns exactly the zones for
\* which isInZone holds, in input order: the k-th zone returned is the zone at
\* the k-th smallest matching position of the input (none when none matches).
ZonesAreFiltered ==
    (geo.op = "zonesContainingPoint" /\ geo.result # None) =>
        LET matching == {i \in DOMAIN geo.zones : InZoneAsSpecified(geo.lat, geo.lng, geo.zones[i])}
            returned == geo.result[1]
        IN  /\ Len(returned) = Cardinality(matching)
            /\ \A k \in DOMAIN returned :
                  returned[k] = geo.zones[NthSmallest(matching, k - 1)]

\* A call returned two of three zones, in input order (yard before depot-2),
\* dropping a malformed zone that stood between them and whose ring holds
\* the point.
ZonesAreFilteredWitness ==
    /\ geo.op = "zonesContainingPoint"
    /\ geo.zones = <<GhalaYard, NoRadius, Depot2>>
    /\ geo.result = Some(<<GhalaYard, Depot2>>)

\* C26: pointInPolygon is true for the vertex average of a convex polygon,
\* whatever the orientation and the first vertex of the ring, and false for a
\* point outside the bounding box of the ring.
CentroidIsInside ==
    (geo.op = "pointInPolygon" /\ geo.result # None /\ IsConvexRing(geo.polygon)) =>
        /\ Pos(geo.lat, geo.lng) = Centroid(geo.polygon) => geo.result = Some(TRUE)
        /\ OutsideBox(geo.lat, geo.lng, geo.polygon) => geo.result = Some(FALSE)

\* The call returned true for the centroid of a clockwise quadrilateral given
\* from its third vertex on.
CentroidIsInsideWitness ==
    /\ geo.op = "pointInPolygon"
    /\ geo.polygon = <<Pos(120, 120), Pos(0, 120), Pos(0, 0), Pos(60, 0)>>
    /\ Pos(geo.lat, geo.lng) = Pos(45, 60)
    /\ geo.result = Some(TRUE)

\* C27: a truck whose status is idle or uplifting has no compartment with
\* isOffloading = true.
NoOffloadingAtRest ==
    \A i \in DOMAIN trucks :
        trucks[i].status \in {"idle", "uplifting"} =>
            \A j \in DOMAIN trucks[i].compartments : ~trucks[i].compartments[j].isOffloading

\* TK003 was sent to Ghala Depot while it was delivering (it has been allocated
\* targets twice), arrived with compartments still offloading (litres
\* delivered, the trip summary written) and is uplifting now; TK002 went the
\* same way from its seeded delivery.
NoOffloadingAtRestWitness ==
    /\ trucks[3].status = "uplifting"
    /\ trucks[3].destination = Some(GHALA_DEPOT)
    /\ Cardinality({k \in DOMAIN trucks[3].logs : trucks[3].logs[k] = "Assigned"}) = 2
    /\ trucks[3].lastTripSummary # None
    /\ DeliveredTotal(trucks[3]) > 0
    /\ trucks[2].status \in {"idle", "uplifting"}

\* C28: a truck whose status is assigned or delivering has a destination, and
\* a tick takes a delivering truck through the movement branch: it moves 1 %
\* of the way to the destination (plus noise below 0.0005 degree per axis) and
\* is completed exactly when that brings it within 0.005 degree.
TripHasDestination ==
    /\ [](\A i \in DOMAIN trucks :
             trucks[i].status \in {"assigned", "delivering"} => trucks[i].destination # None)
    /\ [][IsTick =>
            \A i \in DOMAIN trucks :
                trucks[i].status = "delivering" =>
                    /\ trucks[i].destination # None
                    /\ LET dest == trucks[i].destination[1]
                           p == trucks[i].position
                           q == trucks'[i].position
                       IN  /\ q.lat - (p.lat + Pct1(dest.lat - p.lat)) \in -50..49
                           /\ q.lng - (p.lng + Pct1(dest.lng - p.lng)) \in -50..49
                           /\ trucks'[i].status = "completed" <=> Arrived(q, dest)
                           /\ trucks'[i].status \in {"completed", "delivering"}]_vars

\* TK001, idle and without destination in the seed data, is delivering to the
\* commanded destination and has moved towards it for two ticks.
TripHasDestinationWitness ==
    /\ lastCmd.op = "tick"
    /\ ticks >= 3
    /\ trucks[1].status = "delivering"
    /\ trucks[1].destination = Some(GHALA_DEPOT)
    /\ trucks[1].startPoint # None
    /\ trucks[1].position.lng - trucks[1].startPoint[1].lng >= 2 * 42
    /\ trucks[3].status \in {"assigned", "delivering"}

\* C29: with the interval running and no further assignTrip, every truck in
\* status assigned eventually reaches completed, and every completed truck
\* eventually reaches idle, whatever the position noise.
AssignedReachesIdle ==
    \A i \in 1..Len(DemoFleet) :
        /\ (trucks[i].status = "assigned") ~> (trucks[i].status = "completed")
        /\ (trucks[i].status = "completed") ~> (trucks[i].status = "idle")

\* The most a compartment with this target can lose: round(2.5 % of target).
LossCap(target) == RoundLoss(target, 250)

\* The compartments of truck i that stop offloading in the step.
StopsOffloading(i) ==
    {j \in DOMAIN trucks[i].compartments :
        /\ trucks[i].compartments[j].isOffloading
        /\ ~trucks'[i].compartments[j].isOffloading}

\* C30: a loss is injected only in the tick in which a compartment stops
\* offloading and is at most round(2.5 % of its target), and a compartment
\* starts offloading only with a new assignment whose loss is 0; so
\* provisionalLossLiters is at most the sum of the caps of the assignment's
\* targets and at most 2.5 % of assignedLiters plus 0.5 L per compartment, the
\* lossPercent of every fuel-loss history entry is below 5, and no
\* trip-completion loss alert has severity high.
LossIsBounded ==
    /\ [](/\ \A i \in DOMAIN trucks :
               trucks[i].currentAssignment # None =>
                   LET a == trucks[i].currentAssignment[1]
                       n == Len(a.perCompTargets)
                   IN  /\ a.provisionalLossLiters
                              <= SumSeq([j \in 1..n |-> LossCap(a.perCompTargets[j])])
                       /\ 40 * a.provisionalLossLiters <= a.assignedLiters + 20 * n
           /\ \A e \in DOMAIN fuelLossHistory :
               fuelLossHistory[e].lossPercent.num < 5 * fuelLossHistory[e].lossPercent.den
           /\ \A k \in DOMAIN alerts :
               alerts[k].id.tag = "loss" => alerts[k].severity = "medium")
    /\ [][\A i \in DOMAIN trucks :
              /\ \A j \in DOMAIN trucks[i].compartments :
                    (~trucks[i].compartments[j].isOffloading
                         /\ trucks'[i].compartments[j].isOffloading)
                        => /\ trucks[i].status = "assigned"
                           /\ ProvisionalLoss(trucks'[i]) = 0
              /\ trucks[i].status # "assigned" =>
                    /\ ProvisionalLoss(trucks'[i]) - ProvisionalLoss(trucks[i])
                           <= SumSeq([j \in 1..Len(trucks[i].compartments) |->
                                  IF j \in StopsOffloading(i)
                                  THEN LossCap(Or0(trucks[i].compartments[j].targetDelivery))
                                  ELSE 0])
                    /\ ProvisionalLoss(trucks'[i]) >= ProvisionalLoss(trucks[i])]_vars

\* TK003's trip was closed with all four targets delivered and a loss of
\* 64 L, 2.56 % of the 2500 L assigned: the history has the entry and the
\* trip-completion loss alert was pushed, with severity medium.
LossIsBoundedWitness ==
    /\ lastCmd.op = "tick"
    /\ trucks[3].status = "completed"
    /\ \A j \in DOMAIN trucks[3].compartments :
          /\ ~trucks[3].compartments[j].isOffloading
          /\ trucks[3].compartments[j].deliveredLiters = Some(625)
    /\ \E e \in DOMAIN fuelLossHistory :
          /\ fuelLossHistory[e].truckId = "TK003"
          /\ fuelLossHistory[e].assignedLiters = 2500
          /\ fuelLossHistory[e].lossLiters = 4 * LossCap(625)
          /\ RatioGt(fuelLossHistory[e].lossPercent, 25, 10)
    /\ \E k \in DOMAIN alerts :
          /\ alerts[k].id.tag = "loss"
          /\ alerts[k].truckId = "TK003"
          /\ alerts[k].severity = "medium"

====
